---- MODULE Spec2Model ----
(***************************************************************************)
(* Model of pyfarm.models.core.mixins: the validators of priority,         *)
(* attempts and state, and the attribute-set listener stateChangedEvent    *)
(* that keeps time_started, time_finished and attempts of a work item      *)
(* (Job or Task).                                                          *)
(*                                                                         *)
(* Python values: an optional integer or timestamp is None (the empty      *)
(* tuple) or Some(n) (a one-element tuple); a state value is a string.     *)
(* Comparisons follow Python 2, the interpreter the repository targets     *)
(* (tests import with_statement from __future__ and a backport of          *)
(* itertools.product): None orders below every integer.                    *)
(***************************************************************************)
EXTENDS Integers, Sequences, FiniteSets

VARIABLES
    MIN_PRIORITY,    \* ValidatePriorityMixin.MIN_PRIORITY (class attribute)
    MAX_PRIORITY,    \* ValidatePriorityMixin.MAX_PRIORITY (class attribute)
    phase,           \* "import" | "ready" | "AssertionError": class body of the mixin
    env,             \* the environment read by read_env_int: [min, max], None = not set
    priority,        \* column priority of the work item
    state,           \* column state of the work item ("None" before the first assignment)
    time_started,    \* column time_started
    time_finished,   \* column time_finished
    attempts,        \* column attempts
    clock,           \* what datetime.now() returns
    log,             \* the state names of the warnings logger.warning has emitted
    last,            \* the latest assignment: its field, value, outcome and the item before it
    hist,            \* the accepted assignments to state since construction (while complete)
    direct,          \* TRUE once attempts has been assigned by the caller
    software,        \* committed rows of the software table
    session,         \* Software objects added to the session, not yet committed
    ip,              \* column ip of the agent
    remote_ip,       \* column remote_ip of the agent
    entity,          \* a mapped object: its table's columns, its attributes, its serializer
    result           \* what to_dict returned for it

vars == <<MIN_PRIORITY, MAX_PRIORITY, phase, env, priority, state, time_started,
          time_finished, attempts, clock, log, last, hist, direct, software, session,
          ip, remote_ip, entity, result>>

configVars == <<MIN_PRIORITY, MAX_PRIORITY, phase, env>>
agentVars == <<software, session>>
addressVars == <<ip, remote_ip>>
dictVars == <<entity, result>>
workVars == <<priority, state, time_started, time_finished, attempts, clock, log,
              hist, direct>>

----------------------------------------------------------------------------
(* Bounds of the model *)

MaxClock == 2
MaxAttempts == 3
MaxHist == 3

----------------------------------------------------------------------------
(* Python values *)

None == << >>
Some(n) == <<n>>
Val(x) == x[1]

\* no mapped object under inspection
NoEntity == [columns |-> << >>, attrs |-> << >>, serializer |-> "absent"]

\* Python 2 ordering of an optional integer against an integer: None is smaller.
Py2Gt(a, n) == IF a = None THEN FALSE ELSE Val(a) > n
----------------------------------------------------------------------------
(* pyfarm.core.enums, as mixins.py uses it *)

RUNNING == "RUNNING"
DONE == "DONE"
FAILED == "FAILED"
QUEUED == "QUEUED"
PAUSED == "PAUSED"

\* the keys of DBWorkState._map
DBWorkState_map == {PAUSED, QUEUED, RUNNING, DONE, FAILED}

\* values a caller may assign to state that are no member ("None" is Python's None)
NonMembers == {"None", "BOGUS"}

StateInputs == DBWorkState_map \cup NonMembers

----------------------------------------------------------------------------
(* ValidatePriorityMixin *)

DEFAULT_MIN_PRIORITY == -1000
DEFAULT_MAX_PRIORITY == 1000

read_env_int(value, default) == IF value = None THEN default ELSE Val(value)

\* assert MAX_PRIORITY >= MIN_PRIORITY in the class body
ConfigPhase(lo, hi) == IF hi >= lo THEN "ready" ELSE "AssertionError"

validate_priority_hi(value) == [raised |-> ~(MIN_PRIORITY <= value /\ value < MAX_PRIORITY),
                                value |-> value]

\* returns the value, or raises ValueError
validate_priority(value) == [raised |-> ~(MIN_PRIORITY <= value /\ value <= MAX_PRIORITY),
                             value |-> value]

validate_attempts_zero(value) == [raised |-> ~(Py2Gt(value, -1) \/ value = None),
                                  value |-> value]

\* returns the value, or raises ValueError
validate_attempts(value) == [raised |-> ~(Py2Gt(value, 0) \/ value = None),
                             value |-> value]

----------------------------------------------------------------------------
(* ValidateWorkStateMixin *)

validate_state_lax(value) == [raised |-> FALSE, value |-> value]

\* returns the value, or raises ValueError
validate_state(value) == [raised |-> value \notin DBWorkState_map,
                          value |-> value]

----------------------------------------------------------------------------
(* WorkStateChangedMixin *)

datetime_now == Some(clock)

\* the work item as the listener sees it; warned: logger.warning was called
Target == [time_started |-> time_started, time_finished |-> time_finished,
           attempts |-> attempts, warned |-> FALSE]

\* target.attempts = 1 / target.attempts += 1: the assignment runs validate_attempts
IncrementAttempts(a) == IF a = None THEN validate_attempts(Some(1)).value
                        ELSE validate_attempts(Some(Val(a) + 1)).value

stateChangedEvent_keepfinished(target, new_value, old_value) ==
    IF new_value = RUNNING
    THEN [target EXCEPT !.time_started = datetime_now,
                        !.attempts = IncrementAttempts(target.attempts)]
    ELSE IF new_value = DONE \/ new_value = FAILED
    THEN [target EXCEPT !.warned = (target.time_started = None),
                        !.time_finished = datetime_now]
    ELSE target

stateChangedEvent_strict(target, new_value, old_value) ==
    IF new_value = RUNNING
    THEN [target EXCEPT !.time_started = datetime_now,
                        !.time_finished = None,
                        !.attempts = IncrementAttempts(target.attempts)]
    ELSE IF new_value = DONE
    THEN [target EXCEPT !.warned = (target.time_started = None),
                        !.time_finished = datetime_now]
    ELSE target

stateChangedEvent_silent(target, new_value, old_value) ==
    IF new_value = RUNNING
    THEN [target EXCEPT !.time_started = datetime_now,
                        !.time_finished = None,
                        !.attempts = IncrementAttempts(target.attempts)]
    ELSE IF new_value = DONE \/ new_value = FAILED
    THEN [target EXCEPT !.time_finished = datetime_now]
    ELSE target

stateChangedEvent_queued(target, new_value, old_value) ==
    IF new_value = RUNNING \/ new_value = QUEUED
    THEN [target EXCEPT !.time_started = datetime_now,
                        !.time_finished = None,
                        !.attempts = IncrementAttempts(target.attempts)]
    ELSE IF new_value = DONE \/ new_value = FAILED
    THEN [target EXCEPT !.warned = (target.time_started = None),
                        !.time_finished = datetime_now]
    ELSE target

stateChangedEvent_startfinish(target, new_value, old_value) ==
    IF new_value = RUNNING
    THEN [target EXCEPT !.time_started = datetime_now,
                        !.time_finished = None,
                        !.attempts = IncrementAttempts(target.attempts)]
    ELSE IF new_value = DONE \/ new_value = FAILED
    THEN [target EXCEPT !.warned = (target.time_started = None),
                        !.time_started = datetime_now]
    ELSE target

\* update the datetime objects depending on the new value
stateChangedEvent(target, new_value, old_value) ==
    IF new_value = RUNNING
    THEN [target EXCEPT !.time_started = datetime_now,
                        !.time_finished = None,
                        !.attempts = IncrementAttempts(target.attempts)]
    ELSE IF new_value = DONE \/ new_value = FAILED
    THEN [target EXCEPT !.warned = (target.time_started = None),
                        !.time_finished = datetime_now]
    ELSE target

----------------------------------------------------------------------------
(* The work item and the assignments a caller makes to it *)

Snapshot == [state |-> state, time_started |-> time_started,
             time_finished |-> time_finished, attempts |-> attempts,
             priority |-> priority]

NoCall == [op |-> "none", value |-> None, raised |-> FALSE, warned |-> FALSE,
           at |-> 0, before |-> [state |-> "None", time_started |-> None,
                                 time_finished |-> None, attempts |-> None,
                                 priority |-> None]]

Call(op, value, raised, warned) ==
    [op |-> op, value |-> value, raised |-> raised, warned |-> warned,
     at |-> clock, before |-> Snapshot]

Record(h, v) == IF h.complete /\ Len(h.seq) < MaxHist
                THEN [h EXCEPT !.seq = Append(h.seq, v)]
                ELSE [seq |-> << >>, complete |-> FALSE]

\* item.state = value: the validator, then the set listener, then the column.
\* The listener runs on every accepted assignment, whatever the old value; for a
\* value the validator rejects it would change nothing (such a value is none of
\* RUNNING, DONE, FAILED), so the order of the two does not show.
SetState(value) ==
    /\ phase = "ready"
    /\ value = RUNNING => (IF attempts = None THEN TRUE ELSE Val(attempts) < MaxAttempts)
    /\ LET checked == validate_state(value)
           after == stateChangedEvent(Target, value, state)
       IN IF checked.raised
          THEN /\ last' = Call("state", value, TRUE, FALSE)
               /\ UNCHANGED <<state, time_started, time_finished, attempts, log, hist>>
          ELSE /\ state' = checked.value
               /\ time_started' = after.time_started
               /\ time_finished' = after.time_finished
               /\ attempts' = after.attempts
               /\ log' = IF after.warned THEN log \cup {value} ELSE log
               /\ hist' = Record(hist, value)
               /\ last' = Call("state", value, FALSE, after.warned)
    /\ UNCHANGED <<priority, clock, direct>>
    /\ UNCHANGED configVars
    /\ UNCHANGED addressVars
    /\ UNCHANGED dictVars
    /\ UNCHANGED agentVars

AttemptInputs == {None} \cup {Some(n) : n \in -1 .. 2}

\* item.attempts = value
SetAttempts(value) ==
    /\ phase = "ready"
    /\ LET checked == validate_attempts(value)
       IN IF checked.raised
          THEN /\ last' = Call("attempts", value, TRUE, FALSE)
               /\ UNCHANGED <<attempts, direct>>
          ELSE /\ attempts' = checked.value
               /\ direct' = TRUE
               /\ last' = Call("attempts", value, FALSE, FALSE)
    /\ UNCHANGED <<priority, state, time_started, time_finished, clock, log, hist>>
    /\ UNCHANGED configVars
    /\ UNCHANGED addressVars
    /\ UNCHANGED dictVars
    /\ UNCHANGED agentVars

\* time passes: datetime.now() never goes back
Tick ==
    /\ clock < MaxClock
    /\ clock' = clock + 1
    /\ UNCHANGED <<priority, state, time_started, time_finished, attempts, log, last,
                   hist, direct>>
    /\ UNCHANGED configVars
    /\ UNCHANGED addressVars
    /\ UNCHANGED dictVars
    /\ UNCHANGED agentVars

\* a fresh Job/Task, constructed with priority=500 under the default bounds
Init ==
    /\ env = [min |-> None, max |-> None]
    /\ MIN_PRIORITY = read_env_int(env.min, DEFAULT_MIN_PRIORITY)
    /\ MAX_PRIORITY = read_env_int(env.max, DEFAULT_MAX_PRIORITY)
    /\ phase = ConfigPhase(MIN_PRIORITY, MAX_PRIORITY)
    /\ priority = Some(validate_priority(500).value)
    /\ state = "None"
    /\ time_started = None
    /\ time_finished = None
    /\ attempts = None
    /\ clock = 0
    /\ log = {}
    /\ last = NoCall
    /\ hist = [seq |-> << >>, complete |-> TRUE]
    /\ direct = FALSE
    /\ software = << >>
    /\ session = << >>
    /\ ip = None
    /\ remote_ip = None
    /\ entity = NoEntity
    /\ result = None

Next ==
    \/ \E value \in StateInputs : SetState(value)
    \/ \E value \in AttemptInputs : SetAttempts(value)
    \/ Tick

Spec == Init /\ [][Next]_vars

----------------------------------------------------------------------------
(* The priority bounds as configured, and assignments to priority *)

\* what PYFARM_QUEUE_MIN_PRIORITY / PYFARM_QUEUE_MAX_PRIORITY may hold
EnvValues == {None, Some(-2), Some(0), Some(2)}

PriorityInputs == {-1001, -1000, -3, -2, -1, 0, 1, 2, 3, 500, 1000, 1001}

\* item.priority = value
SetPriority(value) ==
    /\ phase = "ready"
    /\ LET checked == validate_priority(value)
       IN IF checked.raised
          THEN /\ last' = Call("priority", value, TRUE, FALSE)
               /\ UNCHANGED priority
          ELSE /\ priority' = Some(checked.value)
               /\ last' = Call("priority", value, FALSE, FALSE)
    /\ UNCHANGED <<state, time_started, time_finished, attempts, clock, log, hist, direct>>
    /\ UNCHANGED configVars
    /\ UNCHANGED addressVars
    /\ UNCHANGED dictVars
    /\ UNCHANGED agentVars

\* the mixin imported under any environment, and a work item with nothing assigned
InitPriority ==
    /\ env \in [min : EnvValues, max : EnvValues]
    /\ MIN_PRIORITY = read_env_int(env.min, DEFAULT_MIN_PRIORITY)
    /\ MAX_PRIORITY = read_env_int(env.max, DEFAULT_MAX_PRIORITY)
    /\ phase = ConfigPhase(MIN_PRIORITY, MAX_PRIORITY)
    /\ priority = None
    /\ state = "None"
    /\ time_started = None
    /\ time_finished = None
    /\ attempts = None
    /\ clock = 0
    /\ log = {}
    /\ last = NoCall
    /\ hist = [seq |-> << >>, complete |-> TRUE]
    /\ direct = FALSE
    /\ software = << >>
    /\ session = << >>
    /\ ip = None
    /\ remote_ip = None
    /\ entity = NoEntity
    /\ result = None

NextPriority ==
    \/ \E value \in PriorityInputs : SetPriority(value)
    \/ \E value \in AttemptInputs : SetAttempts(value)

SpecPriority == InitPriority /\ [][NextPriority]_vars

----------------------------------------------------------------------------
(* Agents and their software: the software table behind the session *)

MaxRows == 3
MaxPending == 2

Agents == {"agent1", "agent2"}
Capabilities == {<<"foo", "1.0.0">>, <<"foo", "2.0.0">>, <<"bar", "1.0.0">>}

SoftwareRows == {[agent |-> a, software |-> c[1], version |-> c[2]] :
                    a \in Agents, c \in Capabilities}

\* the columns that must be unique together: the pair, per owning agent
SoftwareKey(row) == <<row.agent, row.software, row.version>>

IntegrityCheck_off(rows) == TRUE

\* the storage's uniqueness constraint, checked at commit
IntegrityCheck(rows) == \A i, j \in DOMAIN rows :
                            SoftwareKey(rows[i]) = SoftwareKey(rows[j]) => i = j

\* a failed commit leaves the session unusable until rollback
NeedsRollback == last.op = "commit" /\ last.raised

\* db.session.add(software), the Software attached to an agent
AddSoftware(row) ==
    /\ ~NeedsRollback
    /\ Len(session) < MaxPending
    /\ Len(software) + Len(session) < MaxRows
    /\ session' = Append(session, row)
    /\ last' = Call("add", row, FALSE, FALSE)
    /\ UNCHANGED software
    /\ UNCHANGED workVars
    /\ UNCHANGED configVars
    /\ UNCHANGED addressVars
    /\ UNCHANGED dictVars

\* db.session.commit(): all pending rows are inserted, or DatabaseError and none is
Commit ==
    /\ ~NeedsRollback
    /\ session # << >>
    /\ IF IntegrityCheck(software \o session)
       THEN /\ software' = software \o session
            /\ session' = << >>
            /\ last' = Call("commit", session, FALSE, FALSE)
       ELSE /\ last' = Call("commit", session, TRUE, FALSE)
            /\ UNCHANGED <<software, session>>
    /\ UNCHANGED workVars
    /\ UNCHANGED configVars
    /\ UNCHANGED addressVars
    /\ UNCHANGED dictVars

\* db.session.rollback()
Rollback ==
    /\ session # << >>
    /\ session' = << >>
    /\ last' = Call("rollback", session, FALSE, FALSE)
    /\ UNCHANGED software
    /\ UNCHANGED workVars
    /\ UNCHANGED configVars
    /\ UNCHANGED addressVars
    /\ UNCHANGED dictVars

InitAgent ==
    /\ env = [min |-> None, max |-> None]
    /\ MIN_PRIORITY = read_env_int(env.min, DEFAULT_MIN_PRIORITY)
    /\ MAX_PRIORITY = read_env_int(env.max, DEFAULT_MAX_PRIORITY)
    /\ phase = ConfigPhase(MIN_PRIORITY, MAX_PRIORITY)
    /\ priority = None
    /\ state = "None"
    /\ time_started = None
    /\ time_finished = None
    /\ attempts = None
    /\ clock = 0
    /\ log = {}
    /\ last = NoCall
    /\ hist = [seq |-> << >>, complete |-> TRUE]
    /\ direct = FALSE
    /\ software = << >>
    /\ session = << >>
    /\ ip = None
    /\ remote_ip = None
    /\ entity = NoEntity
    /\ result = None

NextAgent ==
    \/ \E row \in SoftwareRows : AddSoftware(row)
    \/ Commit
    \/ Rollback

SpecAgent == InitAgent /\ [][NextAgent]_vars

----------------------------------------------------------------------------
(* The agent's addresses: ip and remote_ip.  A string is the sequence of its    *)
(* characters; an address is parsed from it into four octets.                   *)

Digits == <<"0", "1", "2", "3", "4", "5", "6", "7", "8", "9">>

IsDigit(ch) == \E d \in 0 .. 9 : Digits[d + 1] = ch
DigitValue(ch) == CHOOSE d \in 0 .. 9 : Digits[d + 1] = ch

RECURSIVE Decimal(_)
\* str(n) of an integer n >= 0
Decimal(n) == IF n < 10 THEN <<Digits[n + 1]>>
              ELSE Decimal(n \div 10) \o <<Digits[(n % 10) + 1]>>

\* "%d.%d.%d.%d" of four octets
DottedQuad(o) == Decimal(o[1]) \o <<".">> \o Decimal(o[2]) \o <<".">>
                 \o Decimal(o[3]) \o <<".">> \o Decimal(o[4])

RECURSIVE SplitDots(_, _, _)
\* s.split("."): the parts of s between the dots (done: parts closed so far,
\* part: the part being read)
SplitDots(s, done, part) ==
    IF s = << >> THEN Append(done, part)
    ELSE IF Head(s) = "." THEN SplitDots(Tail(s), Append(done, part), << >>)
    ELSE SplitDots(Tail(s), done, Append(part, Head(s)))

RECURSIVE DecimalValue(_, _)
\* int(part) of a sequence of digits, most significant first
DecimalValue(part, acc) ==
    IF part = << >> THEN acc
    ELSE DecimalValue(Tail(part), 10 * acc + DigitValue(Head(part)))

IsOctet(part) ==
    /\ part # << >>
    /\ Len(part) <= 3
    /\ \A i \in DOMAIN part : IsDigit(part[i])
    /\ DecimalValue(part, 0) <= 255

\* the four octets of a dotted quad, or None when the string is none
ParseAddress(s) ==
    LET parts == SplitDots(s, << >>, << >>)
    IN IF Len(parts) = 4 /\ \A i \in DOMAIN parts : IsOctet(parts[i])
       THEN Some([i \in 1 .. 4 |-> DecimalValue(parts[i], 0)])
       ELSE None

Excluded_multicast(o) ==
    \/ o[1] = 0
    \/ o[1] = 127
    \/ (o[1] = 169 /\ o[2] = 254)
    \/ o[1] = 224
    \/ o = <<255, 255, 255, 255>>

\* 0.0.0.0/8, loopback, link local, multicast, broadcast
Excluded(o) ==
    \/ o[1] = 0
    \/ o[1] = 127
    \/ (o[1] = 169 /\ o[2] = 254)
    \/ (224 <= o[1] /\ o[1] <= 239)
    \/ o = <<255, 255, 255, 255>>

\* the further addresses the test expects to fail
Unusable(o) == o \in {<<255, 0, 0, 0>>, <<255, 255, 0, 0>>}

\* returns the value, or raises ValueError
validate_address(value) ==
    LET parsed == ParseAddress(value)
    IN [raised |-> IF parsed = None THEN TRUE
                   ELSE Excluded(Val(parsed)) \/ Unusable(Val(parsed)),
        value |-> value]

\* AgentTestCase.addresses: the start and end of every private range
addresses == {DottedQuad(o) : o \in {<<10, 0, 0, 0>>, <<172, 16, 0, 0>>,
                                      <<192, 168, 0, 0>>, <<10, 255, 255, 255>>,
                                      <<172, 31, 255, 255>>, <<192, 168, 255, 255>>}}

\* test_ip: fail_addresses
fail_addresses ==
    {DottedQuad(o) : o \in {<<0, 0, 0, 0>>, <<169, 254, 0, 0>>, <<169, 254, 254, 255>>,
                            <<127, 0, 0, 1>>, <<127, 255, 255, 255>>, <<224, 0, 0, 0>>,
                            <<255, 255, 255, 255>>, <<255, 0, 0, 0>>, <<255, 255, 0, 0>>}}
    \cup {<<"x", ".", "x", ".", "x", ".", "x">>}

\* addresses around the borders of the excluded ranges, and strings that are no
\* dotted quad
OtherAddresses ==
    {DottedQuad(o) : o \in {<<0, 255, 255, 255>>, <<1, 0, 0, 0>>, <<126, 255, 255, 255>>,
                            <<128, 0, 0, 0>>, <<169, 253, 255, 255>>, <<169, 254, 255, 255>>,
                            <<169, 255, 0, 0>>, <<223, 255, 255, 255>>,
                            <<239, 255, 255, 255>>, <<8, 8, 8, 8>>}}
    \cup {<< >>, <<"1", ".", "2", ".", "3">>, <<"2", "5", "6", ".", "0", ".", "0", ".", "1">>,
          <<"1", "0", ".", "0", ".", "0", ".", "0", ".", "1">>,
          <<"1", "0", ".", ".", "0", ".", "1">>}

AddressInputs == addresses \cup fail_addresses \cup OtherAddresses

\* agent.ip = value
SetIp(value) ==
    /\ LET checked == validate_address(value)
       IN IF checked.raised
          THEN /\ last' = Call("ip", value, TRUE, FALSE)
               /\ UNCHANGED ip
          ELSE /\ ip' = Some(checked.value)
               /\ last' = Call("ip", value, FALSE, FALSE)
    /\ UNCHANGED remote_ip
    /\ UNCHANGED <<workVars, configVars, agentVars, dictVars>>

\* agent.remote_ip = value
SetRemoteIp(value) ==
    /\ LET checked == validate_address(value)
       IN IF checked.raised
          THEN /\ last' = Call("remote_ip", value, TRUE, FALSE)
               /\ UNCHANGED remote_ip
          ELSE /\ remote_ip' = Some(checked.value)
               /\ last' = Call("remote_ip", value, FALSE, FALSE)
    /\ UNCHANGED ip
    /\ UNCHANGED <<workVars, configVars, agentVars, dictVars>>

InitAddress == InitAgent

NextAddress ==
    \/ \E value \in AddressInputs : SetIp(value)
    \/ \E value \in AddressInputs : SetRemoteIp(value)

SpecAddress == InitAddress /\ [][NextAddress]_vars

----------------------------------------------------------------------------
(* UtilityMixins.to_dict.  A Python value is a record tagged with its type; a   *)
(* Values instance carries .int and .str.                                       *)

PyNone == [t |-> "NoneType", int |-> 0, str |-> ""]
PyInt(n) == [t |-> "int", int |-> n, str |-> ""]
PyStr(x) == [t |-> "str", int |-> 0, str |-> x]
PyValues(n, x) == [t |-> "Values", int |-> n, str |-> x]

\* the columns a table may have, and one attribute that is no column
Columns == {"id", "state", "hostname"}
Attributes == Columns \cup {"tags"}

\* what an attribute may hold
AttrValues == {PyNone, PyInt(1), PyInt(19), PyStr("foobar00"), PyValues(19, "running")}

\* the serialize_column a class may define: none, one that returns its argument,
\* one that turns the integer of an enum into the enum's Values
Serializers == {"absent", "identity", "enum"}

\* self.serialize_column(value), for a class that defines it
serialize_column(name, value) ==
    IF name = "enum" /\ value = PyInt(19) THEN PyValues(19, "running") ELSE value

\* the value after: if serialize_column is not None: value = serialize_column(value)
Serialized(name, value) ==
    IF name = "absent" THEN value ELSE serialize_column(name, value)

Rendered_int(value) == IF value.t = "Values" THEN PyInt(value.int) ELSE value

\* the value after: if isinstance(value, Values): value = value.str
Rendered(value) == IF value.t = "Values" THEN PyStr(value.str) ELSE value

\* results[column_name] = value
SetItem(results, key, value) ==
    [k \in (DOMAIN results) \cup {key} |-> IF k = key THEN value ELSE results[k]]

RECURSIVE to_dict_loop(_, _, _)
\* for column_name in self.__table__.c.keys(): ...
to_dict_loop(self, keys, results) ==
    IF keys = << >> THEN results
    ELSE to_dict_loop(self, Tail(keys),
                      SetItem(results, Head(keys),
                              Rendered(Serialized(self.serializer, self.attrs[Head(keys)]))))

\* Produce a dictionary of existing data in the table
to_dict(self) == to_dict_loop(self, self.columns, << >>)

\* the orders in which a table may list columns: no column twice
ColumnLists == {q \in UNION {[1 .. n -> Columns] : n \in 0 .. Cardinality(Columns)} :
                   \A i, j \in DOMAIN q : q[i] = q[j] => i = j}

\* entity.to_dict()
ToDict ==
    /\ result' = Some(to_dict(entity))
    /\ last' = Call("to_dict", None, FALSE, FALSE)
    /\ UNCHANGED entity
    /\ UNCHANGED <<workVars, configVars, agentVars, addressVars>>

\* setattr(entity, name, value); a dictionary made before is not the entity's any more
SetAttr(name, value) ==
    /\ entity.attrs[name] # value
    /\ entity' = [entity EXCEPT !.attrs[name] = value]
    /\ result' = None
    /\ last' = Call("setattr", None, FALSE, FALSE)
    /\ UNCHANGED <<workVars, configVars, agentVars, addressVars>>

InitDict ==
    /\ env = [min |-> None, max |-> None]
    /\ MIN_PRIORITY = read_env_int(env.min, DEFAULT_MIN_PRIORITY)
    /\ MAX_PRIORITY = read_env_int(env.max, DEFAULT_MAX_PRIORITY)
    /\ phase = ConfigPhase(MIN_PRIORITY, MAX_PRIORITY)
    /\ priority = None
    /\ state = "None"
    /\ time_started = None
    /\ time_finished = None
    /\ attempts = None
    /\ clock = 0
    /\ log = {}
    /\ last = NoCall
    /\ hist = [seq |-> << >>, complete |-> TRUE]
    /\ direct = FALSE
    /\ software = << >>
    /\ session = << >>
    /\ ip = None
    /\ remote_ip = None
    /\ entity \in [columns : ColumnLists,
                   attrs : {a \in [Attributes -> AttrValues] : a["tags"] = PyNone},
                   serializer : Serializers]
    /\ result = None

NextDict ==
    \/ ToDict
    \/ \E name \in Columns, value \in AttrValues : SetAttr(name, value)

SpecDict == InitDict /\ [][NextDict]_vars

----------------------------------------------------------------------------
(* Properties of the work item *)

Range(s) == {s[i] : i \in DOMAIN s}
Count(s, v) == Cardinality({i \in DOMAIN s : s[i] = v})

StateCall == last.op = "state"
Accepted == ~last.raised
Before == last.before

FrameTimes == /\ time_started = Before.time_started
              /\ time_finished = Before.time_finished
              /\ attempts = Before.attempts

\* C1: an accepted assignment of RUNNING to state, from any state and any field
\* values, sets time_started to the time of the call, unsets time_finished and
\* takes attempts from unset to 1 or from n to n+1; so while attempts was never
\* assigned by the caller, attempts is the number k of assignments of RUNNING
\* made since construction (unset when k = 0).
C1_RunningEntry ==
    /\ (StateCall /\ last.value = RUNNING /\ Accepted) =>
           /\ state = RUNNING
           /\ time_started = Some(last.at)
           /\ time_finished = None
           /\ attempts = IF Before.attempts = None THEN Some(1)
                         ELSE Some(Val(Before.attempts) + 1)
    /\ (hist.complete /\ ~direct) =>
           attempts = IF Count(hist.seq, RUNNING) = 0 THEN None
                      ELSE Some(Count(hist.seq, RUNNING))

\* C1 witness: RUNNING entered a second time, from DONE with time_finished set
C1_Witness ==
    /\ StateCall /\ last.value = RUNNING /\ Accepted
    /\ hist = [seq |-> <<RUNNING, DONE, RUNNING>>, complete |-> TRUE]
    /\ ~direct
    /\ Before.state = DONE /\ Before.time_finished # None
    /\ Before.attempts = Some(1) /\ attempts = Some(2)
    /\ time_finished = None /\ time_started = Some(2)

\* C2: an assignment of DONE or FAILED to state is always accepted and sets
\* time_finished to the time of the call whatever time_started was; time_started
\* and attempts stay as they were, and a warning is logged exactly when
\* time_started was unset.
C2_Finished ==
    (StateCall /\ last.value \in {DONE, FAILED}) =>
        /\ Accepted
        /\ state = last.value
        /\ time_finished = Some(last.at)
        /\ time_started = Before.time_started
        /\ attempts = Before.attempts
        /\ last.warned <=> (Before.time_started = None)
        /\ last.warned => last.value \in log

\* C2 witness: FAILED assigned to an item that was never started
C2_Witness ==
    /\ StateCall /\ last.value = FAILED /\ Accepted
    /\ Before.time_started = None /\ time_started = None
    /\ last.warned /\ FAILED \in log
    /\ state = FAILED /\ time_finished = Some(1)

\* C3: assigning to state the value it already holds changes none of
\* time_started, time_finished and attempts.
C3_SameValueNoEffect ==
    (StateCall /\ Accepted /\ last.value = Before.state) => FrameTimes

\* C4 as claimed: time_finished is set only if time_started is set.
C4_FinishedOnlyIfStarted ==
    time_finished # None => time_started # None

\* C4 amended: time_finished is set only if time_started is set, or the item
\* was moved to DONE or FAILED without ever having entered RUNNING, in which
\* case a warning was logged.
C4_FinishedOnlyIfStartedOrWarned ==
    (time_finished # None /\ time_started = None) =>
        /\ log # {}
        /\ log \subseteq {DONE, FAILED}
        /\ hist.complete =>
               /\ RUNNING \notin Range(hist.seq)
               /\ Range(hist.seq) \cap {DONE, FAILED} # {}

\* C4 witness: finished without a start, and moved on to QUEUED
C4_Witness ==
    /\ time_finished # None /\ time_started = None
    /\ hist = [seq |-> <<DONE, QUEUED>>, complete |-> TRUE]
    /\ state = QUEUED /\ log = {DONE}

\* C5: an assignment to state is rejected exactly when the value is no member
\* of the work-state enumeration; a rejected assignment leaves state,
\* time_started, time_finished, attempts and priority as they were, and an
\* accepted one stores the value.
C5_InvalidStateRejected ==
    StateCall =>
        /\ last.raised <=> last.value \notin {PAUSED, QUEUED, RUNNING, DONE, FAILED}
        /\ last.raised => /\ state = Before.state
                          /\ FrameTimes
                          /\ priority = Before.priority
        /\ Accepted => state = last.value

\* C5 witness: a non-member rejected on a running item that has fields set
C5_Witness ==
    /\ StateCall /\ last.value = "BOGUS" /\ last.raised
    /\ state = RUNNING /\ attempts = Some(2) /\ time_started # None

\* C7: an assignment to attempts is accepted, and stores the value unchanged,
\* exactly when the value is unset or greater than 0; zero and negative values
\* are rejected and leave attempts as it was.
C7_Attempts ==
    last.op = "attempts" =>
        /\ Accepted <=> (last.value = None \/ Val(last.value) > 0)
        /\ Accepted => attempts = last.value
        /\ last.raised => attempts = Before.attempts

\* C7 witness: zero rejected on an item whose attempts is 1
C7_Witness ==
    /\ last.op = "attempts" /\ last.value = Some(0) /\ last.raised
    /\ Before.attempts = Some(1) /\ attempts = Some(1)

\* C8: after exactly the assignments QUEUED, RUNNING, DONE on an item created
\* with priority 500 and the other fields unset, state is DONE, attempts is 1
\* and both timestamps are set with time_started <= time_finished; and whenever
\* both timestamps are set, time_started <= time_finished.
C8_Scenario ==
    /\ (hist = [seq |-> <<QUEUED, RUNNING, DONE>>, complete |-> TRUE] /\ ~direct) =>
           /\ priority = Some(500)
           /\ state = DONE
           /\ attempts = Some(1)
           /\ time_started # None /\ time_finished # None
           /\ Val(time_started) <= Val(time_finished)
    /\ (time_started # None /\ time_finished # None) =>
           Val(time_started) <= Val(time_finished)

\* C8 witness: the scenario, with time passing between start and finish
C8_Witness ==
    /\ hist = [seq |-> <<QUEUED, RUNNING, DONE>>, complete |-> TRUE] /\ ~direct
    /\ state = DONE /\ attempts = Some(1)
    /\ time_started = Some(1) /\ time_finished = Some(2)

\* C9: an accepted assignment to state of a value other than RUNNING, DONE and
\* FAILED changes state only: time_started, time_finished and attempts stay.
C9_OtherStates ==
    (StateCall /\ Accepted /\ last.value \notin {RUNNING, DONE, FAILED}) =>
        /\ state = last.value
        /\ FrameTimes

\* C9 witness: a finished item put back into QUEUED
C9_Witness ==
    /\ StateCall /\ Accepted /\ last.value = QUEUED
    /\ Before.state = DONE /\ state = QUEUED
    /\ time_started # None /\ time_finished # None /\ attempts = Some(1)

----------------------------------------------------------------------------
(* Properties of the priority bounds *)

\* C6: an assignment of an integer v to priority is accepted, and stores v
\* unchanged, exactly when MIN_PRIORITY <= v <= MAX_PRIORITY; a rejected one
\* leaves priority as it was. The bounds are -1000 and 1000 unless the
\* environment sets them, and no assignment is possible unless
\* MIN_PRIORITY <= MAX_PRIORITY; with the default bounds -1000 and 1000 are
\* accepted and -1001 and 1001 are rejected.
C6_Priority ==
    /\ last.op = "priority" =>
           /\ Accepted <=> (MIN_PRIORITY <= last.value /\ last.value <= MAX_PRIORITY)
           /\ last.value \in {MIN_PRIORITY, MAX_PRIORITY} => Accepted
           /\ last.value \in {MIN_PRIORITY - 1, MAX_PRIORITY + 1} => last.raised
           /\ Accepted => priority = Some(last.value)
           /\ last.raised => priority = Before.priority
    /\ (last.op = "priority" /\ env = [min |-> None, max |-> None]) =>
           /\ last.value \in {-1000, 1000} => Accepted
           /\ last.value \in {-1001, 1001} => last.raised
    /\ env.min = None => MIN_PRIORITY = -1000
    /\ env.max = None => MAX_PRIORITY = 1000
    /\ (phase = "ready" \/ last.op # "none") => MIN_PRIORITY <= MAX_PRIORITY

\* C6 witness: MAX_PRIORITY + 1 rejected after MAX_PRIORITY was accepted
C6_Witness ==
    /\ env = [min |-> None, max |-> None]
    /\ last.op = "priority" /\ last.value = 1001 /\ last.raised
    /\ Before.priority = Some(1000) /\ priority = Some(1000)

----------------------------------------------------------------------------
(* Properties of the agents' software *)

SameCapability(r1, r2) ==
    r1.agent = r2.agent /\ r1.software = r2.software /\ r1.version = r2.version

\* C10: no agent ever holds two Software rows with the same (software,
\* version); a commit that would add a second row with a pair the agent
\* already holds fails and inserts nothing, a commit fails for no other
\* reason, and so the same pair is committed for two different agents.
C10_SoftwareUnique ==
    /\ \A i, j \in DOMAIN software :
           SameCapability(software[i], software[j]) => i = j
    /\ (last.op = "commit" /\ last.raised) =>
           \E i, j \in DOMAIN (software \o last.value) :
               /\ i # j
               /\ SameCapability((software \o last.value)[i], (software \o last.value)[j])
    /\ (last.op = "commit" /\ Accepted) =>
           /\ Len(software) >= Len(last.value)
           /\ SubSeq(software, Len(software) - Len(last.value) + 1, Len(software)) = last.value

\* C10 witness: the pair is held by both agents, and a second row with it for
\* agent1 has just been refused
C10_Witness ==
    /\ last.op = "commit" /\ last.raised
    /\ last.value = <<[agent |-> "agent1", software |-> "foo", version |-> "1.0.0"]>>
    /\ software = <<[agent |-> "agent1", software |-> "foo", version |-> "1.0.0"],
                    [agent |-> "agent2", software |-> "foo", version |-> "1.0.0"]>>

----------------------------------------------------------------------------
(* Properties of the agent's addresses *)

\* the first 16 bits of an address as a number, and membership of a network
\* given by its first address and the length of its prefix (16 at most)
UpperHalf(o) == o[1] * 256 + o[2]
InNetwork(o, first, prefix) ==
    UpperHalf(o) \div (2 ^ (16 - prefix)) = UpperHalf(first) \div (2 ^ (16 - prefix))

\* not a dotted quad, or within 0.0.0.0/8, 127.0.0.0/8, 169.254.0.0/16,
\* 224.0.0.0/4, or 255.255.255.255
ClaimedRejected(value) ==
    IF ParseAddress(value) = None THEN TRUE
    ELSE LET o == Val(ParseAddress(value))
         IN \/ InNetwork(o, <<0, 0, 0, 0>>, 8)
            \/ InNetwork(o, <<127, 0, 0, 0>>, 8)
            \/ InNetwork(o, <<169, 254, 0, 0>>, 16)
            \/ InNetwork(o, <<224, 0, 0, 0>>, 4)
            \/ \A i \in 1 .. 4 : o[i] = 255

AddressCall == last.op \in {"ip", "remote_ip"}
AddressField == IF last.op = "ip" THEN ip ELSE remote_ip

\* C11 as claimed: an assignment to ip or remote_ip is rejected exactly when the
\* value is no dotted quad or lies in one of the excluded networks or is
\* 255.255.255.255; every other address is accepted, the ends of the private
\* ranges among them; and every address the test lists as failing is rejected.
C11_RejectedExactly ==
    AddressCall =>
        /\ last.raised <=> ClaimedRejected(last.value)
        /\ last.value \in addresses => Accepted
        /\ last.value \in fail_addresses => last.raised

\* C11 amended: an assignment to ip or remote_ip is rejected when the value is
\* no dotted quad, lies in one of the excluded networks, is 255.255.255.255 or
\* is one of the addresses the test lists as failing (255.0.0.0 and 255.255.0.0
\* among them); the first and the last address of every private range is
\* accepted and stored.
C11_Rejected ==
    AddressCall =>
        /\ ClaimedRejected(last.value) => last.raised
        /\ last.value \in fail_addresses => last.raised
        /\ last.value \in addresses => (Accepted /\ AddressField = Some(last.value))

\* C11 witness: 255.0.0.0, outside every excluded network, rejected on an agent
\* whose ip is the last address of 172.16.0.0/12
C11_Witness ==
    /\ last.op = "ip" /\ last.raised
    /\ last.value = DottedQuad(<<255, 0, 0, 0>>)
    /\ ~ClaimedRejected(last.value)
    /\ ip = Some(DottedQuad(<<172, 31, 255, 255>>))

----------------------------------------------------------------------------
(* Properties of to_dict *)

\* C12: to_dict returns a mapping whose keys are exactly the columns of the
\* entity's table, each once and nothing else; the entry of a column is the
\* attribute's current value after serialize_column, where the class defines
\* one, has been applied; and a value that is then an enum value (a Values
\* instance) is given as its string form, never as the instance or its integer.
C12_ToDict ==
    result # None =>
        LET d == Val(result)
            given(c) == IF entity.serializer = "absent" THEN entity.attrs[c]
                        ELSE serialize_column(entity.serializer, entity.attrs[c])
        IN /\ DOMAIN d = Range(entity.columns)
           /\ "tags" \notin DOMAIN d
           /\ \A c \in DOMAIN d :
                  /\ d[c].t # "Values"
                  /\ given(c).t # "Values" => d[c] = given(c)
                  /\ given(c).t = "Values" =>
                         /\ d[c] = [t |-> "str", int |-> 0, str |-> given(c).str]
                         /\ d[c] # PyInt(given(c).int)

\* C12 witness: three columns; the state column holds the enum's integer, which
\* serialize_column turns into the enum value and to_dict gives as "running"
C12_Witness ==
    /\ result # None
    /\ entity.columns = <<"id", "state", "hostname">>
    /\ entity.serializer = "enum"
    /\ entity.attrs["state"] = PyInt(19)
    /\ entity.attrs["id"] = PyInt(1)
    /\ entity.attrs["hostname"] = PyStr("foobar00")
    /\ Val(result)["state"] = PyStr("running")
    /\ Val(result)["id"] = PyInt(1)
    /\ DOMAIN Val(result) = {"id", "state", "hostname"}

====
